---- MODULE Spec2Model ----
(***************************************************************************)
(* Model of the GAIT dataset automation scripts:                           *)
(*   MA  src/Manual_Automation.py            (render_all_cameras)          *)
(*   NO  src/unnamed/part_000 lines 1-268    ("Manual No Occlusion.py")    *)
(*   OC  src/unnamed/part_000 lines 271-494  ("Manual With Occlusion.py")  *)
(*   the batch controller src/blender_batch_controller.py                  *)
(*                                                                         *)
(* Lengths are in thousandths of a metre (1.5 m = 1500), so the            *)
(* trigonometric placement is integer arithmetic on a sine table that is   *)
(* exact to 1e-3.  Strings are sequences of tokens: a token is one         *)
(* character ("=", "-", a digit) or an indivisible word that contains no   *)
(* "=" ("--start_idx", "Camera_").  Paths are sequences of components,     *)
(* each component a string.                                                *)
(***************************************************************************)
EXTENDS Integers, Sequences, FiniteSets, TLC

\* ------------------------------------------------------------------------
\* CONFIGURATION (identical in the three scripts)
\* ------------------------------------------------------------------------
CAMERA_RADIUS == 10
CAMERA_HEIGHT == 1500
EMPTY_HEIGHT == 1000
CAMERA_COUNT == 11
CAMERA_ANGLE_STEP == 18
SUBJECT_START_OFFSET == -2000
RENDER_FRAME_START == 2
RENDER_FRAME_END == 75
RENDER_BATCH_SIZE == 10
RENDER_OUTPUT_DIR == << <<"workspace">>, <<"renders">>, <<"subject0002">> >>
POLE_OFFSET == <<-2000, 0, 0>>
DEFAULT_START == 0
DEFAULT_END == 3
PAUSE_EVERY == 4

\* blender_batch_controller.py
CAMERA_BATCHES == << <<0, 3>>, <<4, 7>>, <<8, 10>> >>
BLENDER_SCRIPT == "MA"

\* ------------------------------------------------------------------------
\* Bounds of the model
\* ------------------------------------------------------------------------
\* largest camera list handed to a render function that is called directly
MaxCameras == 12
\* sys.argv of the argument-parsing specification: number of arguments and
\* number of tokens after the flag's "="
MaxArgs == 2
MaxValLen == 3

Scripts == {"MA", "NO", "OC"}

Min(a, b) == IF a <= b THEN a ELSE b
Max(a, b) == IF a >= b THEN a ELSE b

\* ------------------------------------------------------------------------
\* Strings: formatting and parsing of integers
\* ------------------------------------------------------------------------
Digits == <<"0", "1", "2", "3", "4", "5", "6", "7", "8", "9">>
DigitSet == {Digits[i] : i \in 1..10}
DigitVal(c) == (CHOOSE i \in 1..10 : Digits[i] = c) - 1

RECURSIVE DecDigits(_)
DecDigits(n) ==
  IF n < 10 THEN <<Digits[n + 1]>>
  ELSE DecDigits(n \div 10) \o <<Digits[(n % 10) + 1]>>

RECURSIVE ZeroPad(_, _)
ZeroPad(s, w) == IF Len(s) >= w THEN s ELSE ZeroPad(<<"0">> \o s, w)

\* f"{n}"
Str(n) == IF n < 0 THEN <<"-">> \o DecDigits(-n) ELSE DecDigits(n)

\* f"{n:03d}": zero padded to width 3, the sign counts in the width
Format03d(n) ==
  IF n < 0 THEN <<"-">> \o ZeroPad(DecDigits(-n), 2) ELSE ZeroPad(DecDigits(n), 3)

RECURSIVE DecValue(_)
DecValue(s) ==
  IF Len(s) = 0 THEN 0
  ELSE 10 * DecValue(SubSeq(s, 1, Len(s) - 1)) + DigitVal(s[Len(s)])

AllDigits(s) == Len(s) > 0 /\ \A i \in 1..Len(s) : s[i] \in DigitSet

\* int(s) on the token alphabet of the model (digits, "-", "=", "x"):
\* an optional sign followed by one or more digits, otherwise ValueError
IntParses(s) ==
  \/ AllDigits(s)
  \/ Len(s) > 1 /\ s[1] = "-" /\ AllDigits(Tail(s))
IntValue(s) == IF s[1] = "-" THEN 0 - DecValue(Tail(s)) ELSE DecValue(s)

\* s.startswith(p)
StartsWith(s, p) == Len(s) >= Len(p) /\ SubSeq(s, 1, Len(p)) = p

\* s.split("="): the pieces between the "=" tokens
RECURSIVE SplitEq(_)
SplitEq(s) ==
  IF \A i \in 1..Len(s) : s[i] # "=" THEN <<s>>
  ELSE LET k == CHOOSE i \in 1..Len(s) : s[i] = "=" /\ \A j \in 1..(i - 1) : s[j] # "="
       IN  <<SubSeq(s, 1, k - 1)>> \o SplitEq(SubSeq(s, k + 1, Len(s)))

START_FLAG == <<"--start_idx", "=">>
END_FLAG == <<"--end_idx", "=">>

\* one pass of the loop body of get_camera_range_from_args over one argument
ScanArg(r, arg) ==
  LET field == SplitEq(arg)[2]
      s1 == IF StartsWith(arg, START_FLAG) /\ IntParses(field) THEN IntValue(field) ELSE r[1]
      e1 == IF StartsWith(arg, END_FLAG) /\ IntParses(field) THEN IntValue(field) ELSE r[2]
  IN  <<s1, e1>>

RECURSIVE get_camera_range_from_args(_, _, _)
get_camera_range_from_args(args, default_start, default_end) ==
  IF Len(args) = 0 THEN <<default_start, default_end>>
  ELSE ScanArg(get_camera_range_from_args(SubSeq(args, 1, Len(args) - 1),
                                          default_start, default_end),
               args[Len(args)])

\* ------------------------------------------------------------------------
\* Geometry
\* ------------------------------------------------------------------------
\* 1000 * sin of the multiples of 18 degrees in the first quadrant
SinTable == <<0, 309, 588, 809, 951, 1000>>

\* 1000 * math.sin(math.radians(deg)), deg a multiple of 18
SinMilli(deg) ==
  LET d == deg % 360
      q == IF d <= 90 THEN d ELSE IF d <= 180 THEN 180 - d
           ELSE IF d <= 270 THEN d - 180 ELSE 360 - d
      v == SinTable[(q \div 18) + 1]
  IN  IF d <= 180 THEN v ELSE 0 - v

\* 1000 * math.cos(math.radians(deg))
CosMilli(deg) == SinMilli(deg + 90)

\* location of the camera at `angle` in script `s`
CameraLocation(s, angle) ==
  IF s = "MA"
  THEN <<CAMERA_RADIUS * CosMilli(angle + 90), CAMERA_RADIUS * SinMilli(angle + 90), CAMERA_HEIGHT>>
  ELSE <<0 - CAMERA_RADIUS * SinMilli(angle), 0 - CAMERA_RADIUS * CosMilli(angle), CAMERA_HEIGHT>>

CameraName(angle) == <<"Camera_">> \o Format03d(angle)
EMPTY_NAME == <<"CameraTarget">>

NewCamera(s, angle) ==
  [type |-> "CAMERA", name |-> CameraName(angle), location |-> CameraLocation(s, angle),
   constraints |-> << [type |-> "TRACK_TO", target |-> EMPTY_NAME] >>]

NewEmpty ==
  [type |-> "EMPTY", name |-> EMPTY_NAME, location |-> <<0, 0, EMPTY_HEIGHT>>,
   constraints |-> << >>]


\* the angles with an off-by-one start: range(1, count + 1)
angles_deg_from_one(count) == [i \in 1..count |-> i * CAMERA_ANGLE_STEP]

\* [i * CAMERA_ANGLE_STEP for i in range(count)]
angles_deg(count) == [i \in 1..count |-> (i - 1) * CAMERA_ANGLE_STEP]

\* the output folder without the camera's name
CamOutputDirShared(name) == RENDER_OUTPUT_DIR

\* os.path.join(RENDER_OUTPUT_DIR, cam.name): the camera name is one component
CamOutputDir(name) == Append(RENDER_OUTPUT_DIR, name)
\* os.path.join(cam_output_dir, "frame_")
FramePath(dir) == Append(dir, <<"frame_">>)

\* the batch end without the clamp to the last frame
BatchEndUnclamped(batch_start) == batch_start + RENDER_BATCH_SIZE - 1

\* batch_end = min(batch_start + RENDER_BATCH_SIZE - 1, RENDER_FRAME_END)
BatchEnd(batch_start) == Min(batch_start + RENDER_BATCH_SIZE - 1, RENDER_FRAME_END)

\* the clamping without its lower bound
ClampRangeNoMax(start_idx, end_idx, n) == <<start_idx, Min(n - 1, end_idx)>>

\* start_idx = max(0, start_idx); end_idx = min(len(cameras) - 1, end_idx)
ClampRange(start_idx, end_idx, n) == <<Max(0, start_idx), Min(n - 1, end_idx)>>

\* the pause condition without `idx < len(cameras)`
PauseAfterAlways(idx, n) == idx % PAUSE_EVERY = 0

\* if idx % 4 == 0 and idx < len(cameras)   (idx counts cameras from 1)
PauseAfter(idx, n) == idx % PAUSE_EVERY = 0 /\ idx < n

\* Python's list[i]: a negative index counts from the end; IndexError outside
IndexOk(list, i) == 0 - Len(list) <= i /\ i < Len(list)
PyItem(list, i) == IF i < 0 THEN list[Len(list) + i + 1] ELSE list[i + 1]

\* [obj for obj in bpy.data.objects if obj.type == 'CAMERA' and obj.name.startswith("Camera_")]
RECURSIVE CameraList(_)
CameraList(objs) ==
  IF Len(objs) = 0 THEN << >>
  ELSE LET o == objs[Len(objs)]
           rest == CameraList(SubSeq(objs, 1, Len(objs) - 1))
       IN  IF o.type = "CAMERA" /\ StartsWith(o.name, <<"Camera_">>)
           THEN Append(rest, o.name) ELSE rest

\* ------------------------------------------------------------------------
\* Inputs
\* ------------------------------------------------------------------------
\* the scene of the .blend file a process starts from
DefaultScene ==
  << [type |-> "MESH", name |-> <<"Cube">>, location |-> <<0, 0, 0>>, constraints |-> << >>],
     [type |-> "CAMERA", name |-> <<"Camera">>, location |-> <<7000, -7000, 5000>>,
      constraints |-> << >>] >>

\* a scene holding the rig of `n` cameras, as script `s` places them
RigScene(s, n) ==
  <<NewEmpty>> \o [i \in 1..n |-> NewCamera(s, angles_deg(n)[i])]

\* index values given on the command line of a pipeline run
IdxValues == {-1, 0, 3, 4, 7, 10, 12}
FlagValues == {Str(i) : i \in IdxValues} \cup {<<"x">>}
StartArgs == {START_FLAG \o v : v \in FlagValues}
EndArgs == {END_FLAG \o v : v \in FlagValues}
MainArgv ==
  {<< >>} \cup {<<a>> : a \in StartArgs \cup EndArgs}
          \cup {<<a, b>> : a \in StartArgs, b \in EndArgs}

\* index arguments of a direct call of render_cameras_in_range
CallIdx == -2..(MaxCameras + 1)

FileFlags == [subject : BOOLEAN, bvh : BOOLEAN, pole : BOOLEAN]
AllFiles == [subject |-> TRUE, bvh |-> TRUE, pole |-> TRUE]

\* ------------------------------------------------------------------------
\* State
\* ------------------------------------------------------------------------
VARIABLES
  script,     \* the script that runs: "MA", "NO" or "OC"
  entry,      \* "main", "render_all_cameras", "render_cameras_in_range",
              \* "controller" or "args"
  argv,       \* sys.argv of the Blender process
  files,      \* which of the input files exist
  pc,         \* position in the program
  objects,    \* bpy.data.objects
  active,     \* bpy.context.view_layer.objects.active (a name, << >> if none)
  selected,   \* names of the selected objects
  scene,      \* bpy.context.scene: camera, filepath, frame_start, frame_end
  dirs,       \* directories created by os.makedirs
  ops,        \* host operators invoked so far (all but render), in order
  calls,      \* the calls of bpy.ops.render.render, in order
  cameras,    \* local `cameras` of the render function
  idx,        \* position in `cameras` (from 0) of the camera being processed
  call_args,  \* the arguments render_cameras_in_range was called with, << >> if none
  range,      \* its locals (start_idx, end_idx): the arguments, then clamped
  announced,  \* the range printed by main's [STEP] message, << >> if none
  batch_start, \* loop variable of the batch loop
  prompts,    \* the value of idx (from 1) at each input() prompt
  anyFailed,  \* some render call raised
  ctl,        \* controller: index in CAMERA_BATCHES of the running batch, 0 if none
  ctlLog,     \* controller: per finished batch, the cameras its process rendered
  result      \* value returned by get_camera_range_from_args (argument spec)

vars == <<script, entry, argv, files, pc, objects, active, selected, scene, dirs, ops, calls,
          cameras, idx, call_args, range, announced, batch_start, prompts, anyFailed,
          ctl, ctlLog, result>>

NoScene == [camera |-> << >>, filepath |-> << >>, frame_start |-> 1, frame_end |-> 250]

\* the state of a freshly started Blender process
FreshProcess ==
  /\ objects = DefaultScene
  /\ active = << >>
  /\ selected = {}
  /\ scene = NoScene
  /\ ops = << >>
  /\ calls = << >>
  /\ cameras = << >>
  /\ idx = 0
  /\ call_args = << >>
  /\ range = <<DEFAULT_START, DEFAULT_END>>
  /\ announced = << >>
  /\ batch_start = RENDER_FRAME_START
  /\ prompts = << >>
  /\ anyFailed = FALSE

\* main() of one of the three scripts, started with some command line
InitMain ==
  /\ entry = "main"
  /\ script \in Scripts
  /\ argv \in MainArgv
  /\ files \in FileFlags
  /\ pc = "clean_scene"
  /\ FreshProcess
  /\ dirs = {}
  /\ ctl = 0
  /\ ctlLog = << >>
  /\ result = << >>

\* render_all_cameras() called on a scene that holds a rig of n cameras
InitRenderAll ==
  /\ entry = "render_all_cameras"
  /\ script \in {"MA", "NO"}
  /\ argv = << >>
  /\ files = AllFiles
  /\ pc = "render"
  /\ \E n \in 0..MaxCameras : objects = RigScene(script, n)
  /\ active = << >>
  /\ selected = {}
  /\ scene = NoScene
  /\ ops = << >>
  /\ calls = << >>
  /\ cameras = << >>
  /\ idx = 0
  /\ call_args = << >>
  /\ range = <<DEFAULT_START, DEFAULT_END>>
  /\ announced = << >>
  /\ batch_start = RENDER_FRAME_START
  /\ prompts = << >>
  /\ anyFailed = FALSE
  /\ dirs = {}
  /\ ctl = 0
  /\ ctlLog = << >>
  /\ result = << >>

\* render_cameras_in_range(start_idx, end_idx) called on such a scene
InitRenderRange ==
  /\ entry = "render_cameras_in_range"
  /\ script \in {"NO", "OC"}
  /\ argv = << >>
  /\ files = AllFiles
  /\ pc = "render"
  /\ \E n \in 0..MaxCameras : objects = RigScene(script, n)
  /\ active = << >>
  /\ selected = {}
  /\ scene = NoScene
  /\ ops = << >>
  /\ calls = << >>
  /\ cameras = << >>
  /\ idx = 0
  /\ call_args \in CallIdx \X CallIdx
  /\ range = call_args
  /\ announced = << >>
  /\ batch_start = RENDER_FRAME_START
  /\ prompts = << >>
  /\ anyFailed = FALSE
  /\ dirs = {}
  /\ ctl = 0
  /\ ctlLog = << >>
  /\ result = << >>

\* main() of blender_batch_controller.py
InitController ==
  /\ entry = "controller"
  /\ script = BLENDER_SCRIPT
  /\ argv = << >>
  /\ files \in FileFlags
  /\ pc = "run_blender_batch"
  /\ FreshProcess
  /\ dirs = {}
  /\ ctl = 1
  /\ ctlLog = << >>
  /\ result = << >>

Init == InitMain \/ InitRenderAll \/ InitRenderRange \/ InitController


\* ------------------------------------------------------------------------
\* main(): the pipeline steps before rendering
\* ------------------------------------------------------------------------
procVars == <<objects, active, selected, scene, ops, calls, cameras, idx, call_args, range, announced,
              batch_start, prompts, anyFailed>>
envVars == <<script, entry, argv, files, ctl, ctlLog, result>>

\* clean_scene(): select everything and delete it
clean_scene ==
  /\ pc = "clean_scene"
  /\ objects' = << >>
  /\ active' = << >>
  /\ selected' = {}
  /\ ops' = Append(ops, "object.delete")
  /\ pc' = "import_subject"
  /\ UNCHANGED <<envVars, scene, dirs, calls, cameras, idx, call_args, range, announced,
                 batch_start, prompts, anyFailed>>

SubjectObject ==
  [type |-> "ARMATURE", name |-> <<"Human">>,
   location |-> <<0, 0 - SUBJECT_START_OFFSET, 0>>, constraints |-> << >>]

\* main going from the subject import straight to the camera setup
import_subject_then_cameras ==
  /\ pc = "import_subject"
  /\ IF files.subject
     THEN /\ ops' = Append(ops, "mpfb.human_from_mhm")
          /\ objects' = Append(objects, SubjectObject)
          /\ selected' = {SubjectObject.name}
          /\ active' \in {active, SubjectObject.name}
          /\ pc' = "setup_cameras"
     ELSE /\ pc' = "FileNotFoundError"
          /\ UNCHANGED <<ops, objects, active, selected>>
  /\ UNCHANGED <<envVars, scene, dirs, calls, cameras, idx, call_args, range, announced,
                 batch_start, prompts, anyFailed>>

\* subject = import_subject(SUBJECT_FILE); subject.location = subject_location
import_subject ==
  /\ pc = "import_subject"
  /\ IF files.subject
     THEN /\ ops' = Append(ops, "mpfb.human_from_mhm")
          /\ objects' = Append(objects, SubjectObject)
          \* the importer leaves the human selected (selected_objects[0]);
          \* whether it also makes it the active object is up to the add-on
          /\ selected' = {SubjectObject.name}
          /\ active' \in {active, SubjectObject.name}
          /\ pc' = "import_and_retarget_bvh"
     ELSE /\ pc' = "FileNotFoundError"
          /\ UNCHANGED <<ops, objects, active, selected>>
  /\ UNCHANGED <<envVars, scene, dirs, calls, cameras, idx, call_args, range, announced,
                 batch_start, prompts, anyFailed>>

\* the retargeting with the target made active and selected before the file
\* is looked for
import_and_retarget_bvh_late_check ==
  /\ pc = "import_and_retarget_bvh"
  /\ active' = SubjectObject.name
  /\ selected' = selected \cup {SubjectObject.name}
  /\ IF files.bvh
     THEN /\ ops' = Append(ops, "mcp.load_and_retarget")
          /\ pc' = "setup_cameras"
     ELSE /\ pc' = "FileNotFoundError"
          /\ UNCHANGED ops
  /\ UNCHANGED <<envVars, objects, scene, dirs, calls, cameras, idx, call_args, range,
                 announced, batch_start, prompts, anyFailed>>

\* import_and_retarget_bvh(BVH_FILE, subject)
import_and_retarget_bvh ==
  /\ pc = "import_and_retarget_bvh"
  /\ IF files.bvh
     THEN /\ active' = SubjectObject.name
          /\ selected' = selected \cup {SubjectObject.name}
          /\ ops' = Append(ops, "mcp.load_and_retarget")
          /\ pc' = "setup_cameras"
     ELSE /\ pc' = "FileNotFoundError"
          /\ UNCHANGED <<active, selected, ops>>
  /\ UNCHANGED <<envVars, objects, scene, dirs, calls, cameras, idx, call_args, range, announced,
                 batch_start, prompts, anyFailed>>

\* setup_cameras(), up to the loop: the tracking target
setup_empty ==
  /\ pc = "setup_cameras"
  /\ ops' = Append(ops, "object.empty_add")
  /\ objects' = Append(objects, NewEmpty)
  /\ active' = EMPTY_NAME
  /\ selected' = {EMPTY_NAME}
  /\ idx' = 0
  /\ pc' = "camera_add"
  /\ UNCHANGED <<envVars, scene, dirs, calls, cameras, call_args, range, announced,
                 batch_start, prompts, anyFailed>>

\* where main goes after setup_cameras
AfterSetup(s) == IF s = "MA" THEN "render" ELSE IF s = "OC" THEN "import_occlusion_pole"
                 ELSE "get_camera_range_from_args"

\* setup_cameras(): one iteration of `for angle in angles_deg`
\* (idx is the number of cameras added so far)
camera_add ==
  /\ pc = "camera_add"
  /\ IF idx < Len(angles_deg(CAMERA_COUNT))
     THEN LET cam == NewCamera(script, angles_deg(CAMERA_COUNT)[idx + 1])
          IN  /\ ops' = Append(ops, "object.camera_add")
              /\ objects' = Append(objects, cam)
              /\ active' = cam.name
              /\ selected' = {cam.name}
              /\ idx' = idx + 1
              /\ UNCHANGED pc
     ELSE /\ pc' = AfterSetup(script)
          /\ idx' = 0
          /\ UNCHANGED <<ops, objects, active, selected>>
  /\ UNCHANGED <<envVars, scene, dirs, calls, cameras, call_args, range, announced,
                 batch_start, prompts, anyFailed>>

PoleObject ==
  [type |-> "MESH", name |-> <<"pole">>,
   location |-> <<SubjectObject.location[1] + POLE_OFFSET[1],
                  SubjectObject.location[2] + POLE_OFFSET[2],
                  SubjectObject.location[3] + POLE_OFFSET[3]>>,
   constraints |-> << >>]

\* the pole import raising on a missing file, as the other two imports do
import_occlusion_pole_strict ==
  /\ pc = "import_occlusion_pole"
  /\ IF files.pole
     THEN /\ ops' = Append(ops, "import_scene.fbx")
          /\ objects' = Append(objects, PoleObject)
          /\ selected' = {PoleObject.name}
          /\ pc' = "get_camera_range_from_args"
     ELSE /\ pc' = "FileNotFoundError"
          /\ UNCHANGED <<ops, objects, selected>>
  /\ UNCHANGED <<envVars, active, scene, dirs, calls, cameras, idx, call_args, range,
                 announced, batch_start, prompts, anyFailed>>

\* import_occlusion_pole(subject_location, offset=(-2.0, 0, 0))   (OC only)
import_occlusion_pole ==
  /\ pc = "import_occlusion_pole"
  /\ IF files.pole
     THEN /\ ops' = Append(ops, "import_scene.fbx")
          /\ objects' = Append(objects, PoleObject)
          /\ selected' = {PoleObject.name}
     ELSE UNCHANGED <<ops, objects, selected>>
  /\ pc' = "get_camera_range_from_args"
  /\ UNCHANGED <<envVars, active, scene, dirs, calls, cameras, idx, call_args, range, announced,
                 batch_start, prompts, anyFailed>>

\* the arguments main passes to render_cameras_in_range, given the parsed range
PassedRange(s, parsed) == IF s = "NO" THEN <<0, 3>> ELSE parsed

\* start_idx, end_idx = get_camera_range_from_args(); the [STEP] message; the call
parse_args ==
  /\ pc = "get_camera_range_from_args"
  /\ LET parsed == get_camera_range_from_args(argv, DEFAULT_START, DEFAULT_END)
     IN  /\ announced' = parsed
         /\ call_args' = PassedRange(script, parsed)
         /\ range' = call_args'
  /\ pc' = "render"
  /\ UNCHANGED <<envVars, objects, active, selected, scene, dirs, ops, calls, cameras, idx,
                 batch_start, prompts, anyFailed>>


\* ------------------------------------------------------------------------
\* The render functions
\* ------------------------------------------------------------------------
\* the render function that runs: main of MA calls render_all_cameras, main of
\* NO and OC call render_cameras_in_range
RenderFn == IF entry = "render_all_cameras" THEN "all"
            ELSE IF entry = "render_cameras_in_range" THEN "range"
            ELSE IF script = "MA" THEN "all" ELSE "range"

\* render_all_cameras of NO is the one that pauses
Interactive == RenderFn = "all" /\ script = "NO"

\* the positions (from 0) of `cameras` the camera loop visits: first and last
LoopRange(fn, r, n) == IF fn = "all" THEN <<0, n - 1>> ELSE ClampRange(r[1], r[2], n)

\* range(RENDER_FRAME_START, RENDER_FRAME_END + 1, RENDER_BATCH_SIZE) has a next value
InBatchLoop(b) == b < RENDER_FRAME_END + 1

\* render settings, frame range, the camera list, the clamping of the indices
render_begin ==
  /\ pc = "render"
  /\ scene' = [scene EXCEPT !.frame_start = RENDER_FRAME_START,
                            !.frame_end = RENDER_FRAME_END]
  /\ cameras' = CameraList(objects)
  /\ IF Len(cameras') = 0
     THEN /\ pc' = "done"
          /\ UNCHANGED <<range, idx>>
     ELSE /\ range' = LoopRange(RenderFn, range, Len(cameras'))
          /\ idx' = range'[1]
          /\ pc' = IF idx' <= range'[2] THEN "camera" ELSE "render_end"
  /\ UNCHANGED <<envVars, objects, active, selected, dirs, ops, calls, call_args, announced,
                 batch_start, prompts, anyFailed>>

\* head of the camera loop: active camera, output folder, output path
camera_begin ==
  /\ pc = "camera"
  /\ IF IndexOk(cameras, idx)
     THEN LET cam == PyItem(cameras, idx)
              cam_output_dir == CamOutputDir(cam)
          IN  /\ scene' = [scene EXCEPT !.camera = cam,
                                        !.filepath = FramePath(cam_output_dir)]
              /\ dirs' = dirs \cup {cam_output_dir}
              /\ batch_start' = RENDER_FRAME_START
              /\ pc' = IF InBatchLoop(batch_start') THEN "batch" ELSE "camera_end"
     ELSE /\ pc' = "IndexError"
          /\ UNCHANGED <<scene, dirs, batch_start>>
  /\ UNCHANGED <<envVars, objects, active, selected, ops, calls, cameras, idx, call_args, range, announced,
                 prompts, anyFailed>>

\* a failed render call that ends the function
AfterRenderAbort(ok, next_start) ==
  IF ~ok THEN "render_end" ELSE IF InBatchLoop(next_start) THEN "batch" ELSE "camera_end"

\* where the batch loop goes after a render call that succeeded (ok) or raised
AfterRender(ok, next_start) == IF InBatchLoop(next_start) THEN "batch" ELSE "camera_end"

\* one iteration of the batch loop: the render call succeeds or raises, and
\* `except Exception` swallows the error
render_batch ==
  /\ pc = "batch"
  /\ LET batch_end == BatchEnd(batch_start)
     IN  /\ scene' = [scene EXCEPT !.frame_start = batch_start, !.frame_end = batch_end]
         /\ calls' = Append(calls,
                        [cam |-> PyItem(cameras, idx), idx |-> idx,
                         camera |-> scene'.camera, filepath |-> scene'.filepath,
                         dir_exists |-> SubSeq(scene'.filepath, 1, Len(scene'.filepath) - 1) \in dirs,
                         frame_start |-> scene'.frame_start, frame_end |-> scene'.frame_end])
  /\ batch_start' = batch_start + RENDER_BATCH_SIZE
  /\ \E ok \in BOOLEAN :
       /\ anyFailed' = (anyFailed \/ ~ok)
       /\ pc' = AfterRender(ok, batch_start')
  /\ UNCHANGED <<envVars, objects, active, selected, dirs, ops, cameras, idx, call_args, range, announced,
                 prompts>>

\* the loop moves to the next camera, or ends
NextCamera ==
  /\ idx' = idx + 1
  /\ pc' = IF idx' <= range[2] THEN "camera" ELSE "render_end"

\* end of the body of the camera loop: the pause of the interactive variant
camera_end ==
  /\ pc = "camera_end"
  /\ IF Interactive /\ PauseAfter(idx + 1, Len(cameras))
     THEN /\ prompts' = Append(prompts, idx + 1)
          /\ pc' = "input"
          /\ UNCHANGED idx
     ELSE /\ NextCamera
          /\ UNCHANGED prompts
  /\ UNCHANGED <<envVars, objects, active, selected, scene, dirs, ops, calls, cameras, call_args, range,
                 announced, batch_start, anyFailed>>

\* the user presses Enter: input() returns
input_return ==
  /\ pc = "input"
  /\ NextCamera
  /\ UNCHANGED <<envVars, objects, active, selected, scene, dirs, ops, calls, cameras, call_args, range,
                 announced, batch_start, prompts, anyFailed>>

\* the final [RENDER] message; the function returns, and so does main
render_end ==
  /\ pc = "render_end"
  /\ pc' = "done"
  /\ UNCHANGED <<envVars, procVars, dirs>>

\* ------------------------------------------------------------------------
\* blender_batch_controller.py
\* ------------------------------------------------------------------------
\* the command line run_blender_batch builds
BatchCmd(start_idx, end_idx) ==
  << <<"blender.exe">>, <<"--background">>, <<"Master.blend">>, <<"--python">>,
     <<"Manual_Automation.py">>, <<"--">>,
     START_FLAG \o Str(start_idx), END_FLAG \o Str(end_idx) >>

RECURSIVE CamsOf(_)
CamsOf(cs) == IF Len(cs) = 0 THEN {} ELSE {cs[1].cam} \cup CamsOf(Tail(cs))

\* run_blender_batch up to subprocess.run: a new Blender process starts
run_blender_batch ==
  /\ pc = "run_blender_batch"
  /\ argv' = BatchCmd(CAMERA_BATCHES[ctl][1], CAMERA_BATCHES[ctl][2])
  /\ objects' = DefaultScene
  /\ active' = << >>
  /\ selected' = {}
  /\ scene' = NoScene
  /\ ops' = << >>
  /\ calls' = << >>
  /\ cameras' = << >>
  /\ idx' = 0
  /\ call_args' = << >>
  /\ range' = <<DEFAULT_START, DEFAULT_END>>
  /\ announced' = << >>
  /\ batch_start' = RENDER_FRAME_START
  /\ prompts' = << >>
  /\ anyFailed' = FALSE
  /\ pc' = "clean_scene"
  /\ UNCHANGED <<script, entry, files, dirs, ctl, ctlLog, result>>

\* the Blender process exits (main returned or raised); the controller reports
\* and goes on to the next batch
process_exit ==
  /\ entry = "controller"
  /\ pc \in {"done", "FileNotFoundError", "IndexError"}
  /\ ctlLog' = Append(ctlLog, CamsOf(calls))
  /\ IF ctl < Len(CAMERA_BATCHES)
     THEN /\ ctl' = ctl + 1
          /\ pc' = "run_blender_batch"
     ELSE /\ pc' = "controller_done"
          /\ UNCHANGED ctl
  /\ UNCHANGED <<script, entry, argv, files, result, procVars, dirs>>

Next ==
  \/ clean_scene
  \/ import_subject
  \/ import_and_retarget_bvh
  \/ setup_empty
  \/ camera_add
  \/ import_occlusion_pole
  \/ parse_args
  \/ render_begin
  \/ camera_begin
  \/ render_batch
  \/ camera_end
  \/ input_return
  \/ render_end
  \/ run_blender_batch
  \/ process_exit

Spec == Init /\ [][Next]_vars

\* ------------------------------------------------------------------------
\* get_camera_range_from_args applied to bounded command lines
\* ------------------------------------------------------------------------
ValTokens == {"1", "2", "-", "=", "x"}
ArgValues == UNION {[1..n -> ValTokens] : n \in 0..MaxValLen}
OtherArgs == { <<"--background">>, <<"--start_idx">>, <<"x", "=", "1">> }
Args == {START_FLAG \o v : v \in ArgValues} \cup {END_FLAG \o v : v \in ArgValues}
          \cup OtherArgs
ArgvSet == UNION {[1..n -> Args] : n \in 0..MaxArgs}
DefaultsSet == { <<DEFAULT_START, DEFAULT_END>>, <<5, 9>> }

InitArgs ==
  /\ entry = "args"
  /\ script \in {"NO", "OC"}
  /\ argv \in ArgvSet
  /\ files = AllFiles
  /\ pc = "get_camera_range_from_args"
  /\ objects = DefaultScene
  /\ active = << >>
  /\ selected = {}
  /\ scene = NoScene
  /\ ops = << >>
  /\ calls = << >>
  /\ cameras = << >>
  /\ idx = 0
  /\ call_args \in DefaultsSet
  /\ range = call_args
  /\ announced = << >>
  /\ batch_start = RENDER_FRAME_START
  /\ prompts = << >>
  /\ anyFailed = FALSE
  /\ dirs = {}
  /\ ctl = 0
  /\ ctlLog = << >>
  /\ result = << >>

\* result = get_camera_range_from_args(default_start, default_end), the defaults
\* being held in call_args
apply_get_camera_range ==
  /\ entry = "args"
  /\ pc = "get_camera_range_from_args"
  /\ result' = get_camera_range_from_args(argv, call_args[1], call_args[2])
  /\ pc' = "returned"
  /\ UNCHANGED <<script, entry, argv, files, ctl, ctlLog, procVars, dirs>>

NextArgs == apply_get_camera_range

SpecArgs == InitArgs /\ [][NextArgs]_vars

\* ------------------------------------------------------------------------
\* Properties
\* ------------------------------------------------------------------------
\* the camera of the last render call is still in its batch loop
MidCamera == pc = "batch"

\* C1: for every rendered camera, in every render function of every script,
\* the frame batches handed to the renderer partition
\* [RENDER_FRAME_START, RENDER_FRAME_END]: the first batch of a camera starts
\* at RENDER_FRAME_START, each next one at the previous batch_end + 1, the
\* last one ends at RENDER_FRAME_END, and every batch is non-empty and has at
\* most RENDER_BATCH_SIZE frames.
C1_BatchesPartitionRange ==
  \A i \in 1..Len(calls) :
    LET c == calls[i]
        first == i = 1 \/ calls[i - 1].idx # c.idx
        last == IF i = Len(calls) THEN ~MidCamera ELSE calls[i + 1].idx # c.idx
    IN  /\ c.frame_start <= c.frame_end
        /\ c.frame_end - c.frame_start + 1 <= RENDER_BATCH_SIZE
        /\ RENDER_FRAME_START <= c.frame_start
        /\ c.frame_end <= RENDER_FRAME_END
        /\ first => c.frame_start = RENDER_FRAME_START
        /\ ~first => c.frame_start = calls[i - 1].frame_end + 1
        /\ last => c.frame_end = RENDER_FRAME_END

\* a run that rendered two cameras or more to the end, the last batch of a
\* camera being shorter than RENDER_BATCH_SIZE
C1_Witness ==
  /\ pc = "done"
  /\ \E i, j \in 1..Len(calls) : calls[i].idx # calls[j].idx
  /\ \E i \in 1..Len(calls) :
       /\ calls[i].frame_end = RENDER_FRAME_END
       /\ calls[i].frame_end - calls[i].frame_start + 1 < RENDER_BATCH_SIZE

\* the camera list of the running render function, once it has been computed
n_cameras == Len(cameras)

\* C2: render_cameras_in_range(start_idx, end_idx) on a non-empty camera list
\* of length n renders exactly the cameras at positions max(0, start_idx) ..
\* min(n - 1, end_idx), each once and in ascending order, never indexes the
\* list out of bounds, and renders nothing (without error) when that set of
\* positions is empty.
C2_RangeRendersClampedIndices ==
  (RenderFn = "range" /\ n_cameras > 0) =>
    LET lo == Max(0, call_args[1])
        hi == Min(n_cameras - 1, call_args[2])
    IN  /\ pc # "IndexError"
        /\ \A i \in 1..Len(calls) :
             /\ calls[i].idx \in lo..hi
             /\ calls[i].cam = cameras[calls[i].idx + 1]
             /\ i = 1 => calls[i].idx = lo
             /\ i > 1 =>
                  \/ calls[i].idx = calls[i - 1].idx + 1
                  \/ /\ calls[i].idx = calls[i - 1].idx
                     /\ calls[i].frame_start > calls[i - 1].frame_start
        /\ pc = "done" => {calls[i].idx : i \in 1..Len(calls)} = lo..hi

\* a finished call whose two arguments were both clamped
C2_Witness ==
  /\ RenderFn = "range"
  /\ pc = "done"
  /\ n_cameras >= 2
  /\ call_args[1] < 0
  /\ call_args[2] >= n_cameras
  /\ {calls[i].idx : i \in 1..Len(calls)} = 0..(n_cameras - 1)

\* the values range(RENDER_FRAME_START, RENDER_FRAME_END + 1, RENDER_BATCH_SIZE) yields
BatchStarts ==
  {b \in RENDER_FRAME_START..RENDER_FRAME_END :
     (b - RENDER_FRAME_START) % RENDER_BATCH_SIZE = 0}

\* the positions of the camera list a render function is to visit
CamerasToVisit ==
  IF RenderFn = "all" THEN 0..(n_cameras - 1)
  ELSE Max(0, call_args[1])..Min(n_cameras - 1, call_args[2])

\* C6: a render call that raises is caught: when some calls have failed the
\* function still attempts every batch of every camera it is to visit, and
\* returns normally.
C6_FailuresDoNotReduceAttempts ==
  anyFailed =>
    /\ pc \notin {"FileNotFoundError", "IndexError"}
    /\ pc = "done" =>
         {<<calls[i].idx, calls[i].frame_start>> : i \in 1..Len(calls)}
           = CamerasToVisit \X BatchStarts

\* a function that returned after some render call failed, having visited
\* two cameras or more
C6_Witness ==
  /\ pc = "done"
  /\ anyFailed
  /\ \E i, j \in 1..Len(calls) : calls[i].idx # calls[j].idx

\* C7: the interactive render_all_cameras prompts exactly after the k-th camera
\* for each positive multiple k of 4 with k < n, never after the last camera,
\* and no later camera starts before the prompt is answered.
C7_PauseEveryFourCameras ==
  Interactive =>
    /\ \A j \in 1..Len(prompts) : prompts[j] = 4 * j /\ 4 * j < n_cameras
    /\ \A i \in 1..Len(calls) : Len(prompts) >= calls[i].idx \div 4
    /\ pc = "input" =>
         /\ Len(prompts) > 0 /\ Len(calls) > 0
         /\ \A i \in 1..Len(calls) : calls[i].idx + 1 <= prompts[Len(prompts)]
         /\ calls[Len(calls)].idx + 1 = prompts[Len(prompts)]
         /\ calls[Len(calls)].frame_end = RENDER_FRAME_END
    /\ (pc = "done" /\ n_cameras > 0) => Len(prompts) = (n_cameras - 1) \div 4

\* eight cameras rendered with one prompt, after the fourth and not the eighth
C7_Witness ==
  /\ Interactive
  /\ pc = "done"
  /\ n_cameras = 8
  /\ prompts = <<4>>
  /\ \E i \in 1..Len(calls) : calls[i].idx = 7

\* C8: at every render call the active camera is the camera being processed,
\* the output path is RENDER_OUTPUT_DIR/<its name>/frame_, that folder exists,
\* and two distinct cameras never render into the same folder.
C8_OwnFolderPerCamera ==
  /\ \A i \in 1..Len(calls) :
       /\ calls[i].camera = calls[i].cam
       /\ calls[i].filepath = RENDER_OUTPUT_DIR \o <<calls[i].cam, <<"frame_">> >>
       /\ calls[i].dir_exists
  /\ LET used == {<<calls[i].idx, calls[i].filepath>> : i \in 1..Len(calls)}
     IN  \A a, b \in used : a[1] # b[1] => a[2] # b[2]

\* render calls for two different cameras have been made
C8_Witness ==
  \E i, j \in 1..Len(calls) : calls[i].idx # calls[j].idx /\ calls[i].cam # calls[j].cam

\* setup_cameras of the running main has returned
SetupDone ==
  /\ entry \in {"main", "controller"}
  /\ pc \in {"import_occlusion_pole", "get_camera_range_from_args", "render", "camera",
             "batch", "camera_end", "input", "render_end", "done"}

ObjectsOfType(t) == {k \in 1..Len(objects) : objects[k].type = t}

\* Camera_<angle as 3 digits>
Name3(angle) ==
  <<"Camera_", Digits[(angle \div 100) + 1], Digits[((angle \div 10) % 10) + 1],
    Digits[(angle % 10) + 1]>>

\* C9: setup_cameras creates exactly one tracking target, the empty named
\* CameraTarget, and exactly CAMERA_COUNT cameras, one per angle
\* i * CAMERA_ANGLE_STEP (i = 0..CAMERA_COUNT-1, all within 0..180), named
\* Camera_<angle as 3 digits> with pairwise distinct names; every camera has
\* one TRACK_TO constraint whose target is that empty, and the empty is
\* created before the first camera.
C9_SetupCamerasRig ==
  LET cams == ObjectsOfType("CAMERA")
      empties == ObjectsOfType("EMPTY")
  IN  /\ entry \in {"main", "controller"} =>
           \A k \in cams : StartsWith(objects[k].name, <<"Camera_">>) =>
             \E e \in empties : e < k /\ objects[e].name = <<"CameraTarget">>
      /\ SetupDone =>
           /\ Cardinality(empties) = 1
           /\ \A e \in empties : objects[e].name = <<"CameraTarget">>
           /\ Cardinality(cams) = CAMERA_COUNT
           /\ \A i \in 0..(CAMERA_COUNT - 1) :
                /\ i * CAMERA_ANGLE_STEP <= 180
                /\ Cardinality({k \in cams : objects[k].name = Name3(i * CAMERA_ANGLE_STEP)}) = 1
           /\ \A k, m \in cams : k # m => objects[k].name # objects[m].name
           /\ \A k \in cams :
                /\ Len(objects[k].constraints) = 1
                /\ objects[k].constraints[1].type = "TRACK_TO"
                /\ \E e \in empties : objects[k].constraints[1].target = objects[e].name

\* setup_cameras has just returned in a run of main
C9_Witness ==
  /\ SetupDone
  /\ calls = << >>
  /\ \E k \in ObjectsOfType("CAMERA") : objects[k].name = <<"Camera_", "1", "8", "0">>

\* C10 (as claimed): in every script Camera_000 is placed at
\* (0, +CAMERA_RADIUS, CAMERA_HEIGHT) and Camera_180 at
\* (0, -CAMERA_RADIUS, CAMERA_HEIGHT).
C10_FrontCameraOnPositiveY ==
  SetupDone =>
    \A k \in ObjectsOfType("CAMERA") :
      /\ objects[k].name = <<"Camera_", "0", "0", "0">> =>
           objects[k].location = <<0, 1000 * CAMERA_RADIUS, CAMERA_HEIGHT>>
      /\ objects[k].name = <<"Camera_", "1", "8", "0">> =>
           objects[k].location = <<0, 0 - 1000 * CAMERA_RADIUS, CAMERA_HEIGHT>>

\* C3 (as claimed): in a script whose main reads the camera range from the
\* command line, the range handed to render_cameras_in_range is the parsed
\* range, which is the one the [STEP] message announces, and the cameras
\* rendered are those of that range.
C3_MainRendersParsedRange ==
  (entry = "main" /\ script \in {"NO", "OC"} /\ announced # << >>) =>
    /\ call_args = announced
    /\ pc = "done" =>
         {calls[i].idx : i \in 1..Len(calls)}
           = Max(0, announced[1])..Min(n_cameras - 1, announced[2])

\* the cameras CAMERA_BATCHES[k] names
BatchCameras(k) ==
  {Name3(i * CAMERA_ANGLE_STEP) : i \in CAMERA_BATCHES[k][1]..CAMERA_BATCHES[k][2]}

\* C4 (as claimed): the Blender process the controller starts for batch
\* (start_idx, end_idx) renders only the cameras start_idx..end_idx, so that
\* over a complete controller run no camera is rendered by two batches and
\* every camera is rendered once.
C4_ControllerBatchesDisjoint ==
  entry = "controller" =>
    /\ \A i \in 1..Len(calls) :
         calls[i].idx \in CAMERA_BATCHES[ctl][1]..CAMERA_BATCHES[ctl][2]
    /\ \A k, m \in 1..Len(ctlLog) : k # m => ctlLog[k] \cap ctlLog[m] = {}
    /\ (pc = "controller_done" /\ files.subject /\ files.bvh) =>
         \A k \in 1..Len(CAMERA_BATCHES) : ctlLog[k] = BatchCameras(k)

\* the text of an argument after its flag
FlagValue(arg, flag) == SubSeq(arg, Len(flag) + 1, Len(arg))

\* what C5 says get_camera_range_from_args returns for one flag: the integer
\* of the last occurrence whose value parses, or the default
LastGood(args, flag, default) ==
  LET good == {i \in 1..Len(args) :
                 StartsWith(args[i], flag) /\ IntParses(FlagValue(args[i], flag))}
  IN  IF good = {} THEN default
      ELSE IntValue(FlagValue(args[CHOOSE i \in good : \A j \in good : j <= i], flag))

\* C5 (as claimed): for each flag independently the result is the integer
\* value of the last occurrence whose value parses as an integer, or the
\* default; malformed occurrences and other arguments change nothing.
C5_LastWellFormedOccurrenceWins ==
  (entry = "args" /\ pc = "returned") =>
    result = <<LastGood(argv, START_FLAG, call_args[1]),
               LastGood(argv, END_FLAG, call_args[2])>>

\* the host operators invoked so far
OpsInvoked == {ops[i] : i \in 1..Len(ops)}

\* a run of main, started directly or by the controller
MainRun == entry \in {"main", "controller"}

\* C11, what holds of every state: with the subject file missing the
\* human-model importer is never invoked, with the BVH file missing the
\* retarget operator is never invoked, and with either missing no camera is
\* set up, no pole imported and no render call made.
C11_NoLaterStep ==
  MainRun =>
    /\ ~files.subject => "mpfb.human_from_mhm" \notin OpsInvoked
    /\ ~files.bvh => "mcp.load_and_retarget" \notin OpsInvoked
    /\ (~files.subject \/ ~files.bvh) =>
         /\ OpsInvoked \cap {"object.empty_add", "object.camera_add", "import_scene.fbx"} = {}
         /\ ObjectsOfType("CAMERA") \subseteq {k \in 1..Len(objects) : objects[k] \in
                                                 {DefaultScene[j] : j \in 1..Len(DefaultScene)}}
         /\ calls = << >>

\* C11, what holds of every step: a missing file makes the function raise
\* FileNotFoundError, the raising step leaves the operators invoked, the
\* objects, the active object and the selection as they were, and main takes
\* no step after it (the controller only ends the process).
C11_RaiseStep ==
  MainRun =>
    /\ (pc = "import_subject" /\ ~files.subject) => pc' = "FileNotFoundError"
    /\ (pc = "import_and_retarget_bvh" /\ ~files.bvh) => pc' = "FileNotFoundError"
    /\ pc' = "FileNotFoundError" =>
         /\ pc \in {"import_subject", "import_and_retarget_bvh"}
         /\ UNCHANGED <<ops, objects, active, selected, calls, dirs>>
    /\ pc = "FileNotFoundError" =>
         /\ entry = "controller"
         /\ pc' \in {"run_blender_batch", "controller_done"}
         /\ UNCHANGED <<ops, objects, active, selected, calls, dirs>>

\* C11: a missing subject file makes import_subject raise FileNotFoundError
\* without invoking the human-model importer; a missing BVH file makes
\* import_and_retarget_bvh raise FileNotFoundError without changing the active
\* object or the selection and without invoking the retarget operator; main
\* stops there: no camera setup, no occlusion import, no render call.
C11_MissingFileStopsMain == []C11_NoLaterStep /\ [][C11_RaiseStep]_vars

\* main has stopped on the missing BVH file, the subject being imported and
\* selected but not active
C11_Witness ==
  /\ entry = "main"
  /\ pc = "FileNotFoundError"
  /\ files.subject /\ ~files.bvh
  /\ selected = {SubjectObject.name}
  /\ active = << >>

\* main of the occlusion script
OcclusionRun == entry = "main" /\ script = "OC"

\* import_occlusion_pole of the running main has returned
PoleStepDone ==
  pc \in {"get_camera_range_from_args", "render", "camera", "batch", "camera_end",
          "render_end", "done"}

ObjectsNamed(nm) == {k \in 1..Len(objects) : objects[k].name = nm}

\* C12, what holds of every state: without the pole file the FBX importer is
\* never invoked, no pole is in the scene and nothing is raised for it; with
\* the file the one imported pole lies at subject_location + (-2.0, 0, 0),
\* component by component; in both cases the finished run has rendered the
\* cameras of the requested range.
C12_PoleState ==
  OcclusionRun =>
    /\ ~files.pole =>
         /\ "import_scene.fbx" \notin OpsInvoked
         /\ ObjectsNamed(<<"pole">>) = {}
    /\ pc = "FileNotFoundError" => (~files.subject \/ ~files.bvh)
    /\ (PoleStepDone /\ files.pole) =>
         /\ Cardinality(ObjectsNamed(<<"pole">>)) = 1
         /\ \A k \in ObjectsNamed(<<"pole">>) : \A h \in ObjectsNamed(<<"Human">>) :
              /\ objects[k].location[1] = objects[h].location[1] - 2000
              /\ objects[k].location[2] = objects[h].location[2] + 0
              /\ objects[k].location[3] = objects[h].location[3] + 0
              /\ objects[k].location = <<-2000, 2000, 0>>
    /\ pc = "done" =>
         {calls[i].idx : i \in 1..Len(calls)}
           = Max(0, announced[1])..Min(n_cameras - 1, announced[2])

\* C12, what holds of every step: import_occlusion_pole returns to main, which
\* goes on to read the camera range, whether the pole file exists or not.
C12_PoleStep ==
  (OcclusionRun /\ pc = "import_occlusion_pole") => pc' = "get_camera_range_from_args"

\* C12: the occlusion object is optional: when the pole file does not exist
\* import_occlusion_pole neither invokes the FBX importer nor raises and main
\* still renders the requested cameras; when it exists the pole is placed at
\* subject_location + offset, component by component.
C12_PoleIsOptional == []C12_PoleState /\ [][C12_PoleStep]_vars

\* the occlusion script has rendered cameras to the end without a pole file
C12_Witness ==
  /\ OcclusionRun
  /\ ~files.pole
  /\ pc = "done"
  /\ calls # << >>

\* the host operators of a complete run of main, in the order claimed: clean,
\* import the subject, retarget, the tracking target and the cameras, and in
\* the occlusion script the pole (when its file exists)
StepsInOrder ==
  <<"object.delete", "mpfb.human_from_mhm", "mcp.load_and_retarget", "object.empty_add">>
    \o [i \in 1..CAMERA_COUNT |-> "object.camera_add"]
    \o (IF script = "OC" /\ files.pole THEN <<"import_scene.fbx">> ELSE << >>)

\* C13: in every run of main the steps happen in a fixed order: the scene is
\* cleaned, the subject imported and positioned, the motion retargeted onto
\* that subject, the cameras set up, the pole imported (occlusion script
\* only), and only then is a render call made: no render call precedes the
\* completion of the subject import, the retargeting and the camera setup.
C13_PipelineOrder ==
  MainRun =>
    /\ Len(ops) <= Len(StepsInOrder)
    /\ ops = SubSeq(StepsInOrder, 1, Len(ops))
    /\ "mpfb.human_from_mhm" \in OpsInvoked =>
         /\ Cardinality(ObjectsNamed(<<"Human">>)) = 1
         /\ \A h \in ObjectsNamed(<<"Human">>) : objects[h].location = <<0, 2000, 0>>
    /\ pc = "setup_cameras" => (active = <<"Human">> /\ <<"Human">> \in selected)
    /\ calls # << >> =>
         /\ ops = StepsInOrder
         /\ script = "OC" => announced # << >>

\* a run of the occlusion script that imported the pole and has made render calls
C13_Witness ==
  /\ OcclusionRun
  /\ files.pole
  /\ pc = "done"
  /\ calls # << >>
  /\ ops[Len(ops)] = "import_scene.fbx"

====
